---- MODULE Spec2Model ----
(***************************************************************************)
(* Model of the tree-chat conversation tree: the immutable tree core       *)
(* (createEmptyTree, addChild, toggleCollapse, setActiveNode,              *)
(* appendMessage, renameNode, deleteSubtree) and the undo-capture/restore  *)
(* pair of the App (captureDeletedSubtree, restoreDeletedSubtree).         *)
(*                                                                         *)
(* Ids produced by makeId() are modelled as fresh naturals drawn from a    *)
(* counter; strings are sequences of one-character strings; Date.now() is  *)
(* a clock that an environment step advances.                              *)
(***************************************************************************)
EXTENDS Integers, Sequences, FiniteSets, TLC

VARIABLES
  tree,         \* the ChatTree held in the App's state slot
  lastDeleted,  \* the DeletedSnapshot slot (NoSnapshot for null)
  nextId,       \* the next node id makeId() returns
  nextMsgId,    \* the next message id makeId() returns
  clock,        \* the value Date.now() returns
  edits,        \* number of toggleCollapse, renameNode and appendMessage calls
                \* that took effect
  del,          \* the locals of a deleteSubtree call in progress
  isGenerating, \* the App's isGenerating flag
  abortRef,     \* abortRef.current: the id of the latest controller, or NULL
  inflight,     \* the sendChat calls that have not settled
  nextReqId,    \* the id of the next AbortController
  error,        \* the App's error message, or NoError
  lastRequest,  \* lastRequest: the node id of the request to retry, or NULL
  activeTreeId, \* the id of the workspace shown
  treeList,     \* the ids of the workspaces, in the order of the list
  storage,      \* localStorage: workspace id -> the tree saved under it
  saveTimer,    \* TRUE while the save effect's timeout is pending
  nextWsId,     \* the next workspace id makeId() returns
  exported,     \* the tree in the file written by 'Export JSON', or NoFile
  alerted       \* the message of the last window.alert, or NoAlert

\* The state of the tree core and the undo slot.
coreVars == <<tree, lastDeleted, nextId, nextMsgId, clock, edits>>

\* The state outside the tree core and the undo slot.
\* The state of the chat requests.
chatVars == <<isGenerating, abortRef, inflight, nextReqId, error, lastRequest>>

\* The state of the workspaces and their persistence.
storeVars == <<activeTreeId, treeList, storage, saveTimer, nextWsId>>

\* The export file and the alerts.
fileVars == <<exported, alerted>>

appVars == <<del, chatVars, storeVars, fileVars>>

\* appVars without del, without chatVars, and without storeVars and
\* fileVars.
exceptDel == <<chatVars, storeVars, fileVars>>

exceptChat == <<del, storeVars, fileVars>>

exceptStore == <<del, chatVars>>

vars == <<coreVars, appVars>>

(***************************************************************************)
(* Bounds of the model.                                                    *)
(***************************************************************************)
\* Node ids makeId() can hand out, the root's included.
MaxNodes == 4
\* Largest value the clock reaches.
MaxClock == 1
\* Content edits (toggleCollapse, renameNode, appendMessage) that take effect
\* in one behaviour.
MaxEdits == 1

(***************************************************************************)
(* Values.                                                                 *)
(***************************************************************************)
NULL == 0

RootTitle == <<"R", "o", "o", "t">>

DefaultTitle == <<"N", "e", "w", " ", "t", "h", "r", "e", "a", "d">>

UntitledTitle == <<"U", "n", "t", "i", "t", "l", "e", "d">>

TitleSliceLen == 30

Whitespace == {" "}

Roles == {"system", "user", "assistant"}

\* Ids an operation may be called with: every id ever made, one that was
\* never made, and null.
ArgIds == 0 .. (MaxNodes + 1)

\* Raw titles handed to renameNode.
RenameInputs == { <<" ", "a", " ">>, <<" ">> }

\* Message contents handed to appendMessage.
Contents == { <<"h", "i">> }

(***************************************************************************)
(* String helpers.                                                         *)
(***************************************************************************)
RECURSIVE TrimStart(_)
TrimStart(s) ==
  IF s = <<>> THEN s
  ELSE IF Head(s) \in Whitespace THEN TrimStart(Tail(s)) ELSE s

RECURSIVE TrimEnd(_)
TrimEnd(s) ==
  IF s = <<>> THEN s
  ELSE IF s[Len(s)] \in Whitespace THEN TrimEnd(SubSeq(s, 1, Len(s) - 1)) ELSE s

\* Mutant of trim: only the leading whitespace is removed.
trim_StartOnly(s) == TrimStart(s)

trim(s) == TrimEnd(TrimStart(s))

\* String.prototype.slice(0, n) for n >= 0.
slice0(s, n) == IF Len(s) <= n THEN s ELSE SubSeq(s, 1, n)

(***************************************************************************)
(* Array helpers (0-based indices, as in the source).                      *)
(***************************************************************************)
includes(seq, x) == \E i \in 1 .. Len(seq) : seq[i] = x

\* Array.prototype.indexOf: first 0-based position of x, or -1.
indexOf(seq, x) ==
  IF includes(seq, x)
  THEN (CHOOSE i \in 1 .. Len(seq) :
          seq[i] = x /\ \A j \in 1 .. (i - 1) : seq[j] # x) - 1
  ELSE -1

\* Array.prototype.filter keeping the elements outside the set.
RECURSIVE filterOut(_, _)
filterOut(seq, set) ==
  IF seq = <<>> THEN <<>>
  ELSE IF Head(seq) \in set THEN filterOut(Tail(seq), set)
       ELSE <<Head(seq)>> \o filterOut(Tail(seq), set)

\* arr.splice(at, 0, x) for 0 <= at <= arr.length.
spliceIn(seq, at, x) ==
  SubSeq(seq, 1, at) \o <<x>> \o SubSeq(seq, at + 1, Len(seq))

(***************************************************************************)
(* The tree core.                                                          *)
(***************************************************************************)
Keys(T) == DOMAIN T.nodes

\* Mutant of createEmptyTree: the root gets the title of a new thread.
createEmptyTree_DefaultTitle(rootId, t) ==
  [ rootId |-> rootId,
    activeNodeId |-> rootId,
    nodes |-> [ k \in {rootId} |->
                [ id |-> rootId, title |-> DefaultTitle, parentId |-> NULL,
                  childrenIds |-> <<>>, isCollapsed |-> FALSE,
                  messages |-> <<>>, createdAt |-> t, updatedAt |-> t ] ] ]

createEmptyTree(rootId, t) ==
  [ rootId |-> rootId,
    activeNodeId |-> rootId,
    nodes |-> [ k \in {rootId} |->
                [ id |-> rootId, title |-> RootTitle, parentId |-> NULL,
                  childrenIds |-> <<>>, isCollapsed |-> FALSE,
                  messages |-> <<>>, createdAt |-> t, updatedAt |-> t ] ] ]

\* Mutant of newChild: the child is created without its parent link.
newChild_NoParent(childId, parentId, t) ==
  [ id |-> childId, title |-> DefaultTitle, parentId |-> NULL,
    childrenIds |-> <<>>, isCollapsed |-> FALSE,
    messages |-> <<>>, createdAt |-> t, updatedAt |-> t ]

\* The node record addChild creates.
newChild(childId, parentId, t) ==
  [ id |-> childId, title |-> DefaultTitle, parentId |-> parentId,
    childrenIds |-> <<>>, isCollapsed |-> FALSE,
    messages |-> <<>>, createdAt |-> t, updatedAt |-> t ]

\* Mutant of addChild: the new child is not made the active node.
addChild_KeepActive(T, parentId, childId, t) ==
  IF parentId \notin Keys(T) THEN T
  ELSE
    LET parent == T.nodes[parentId]
        child == newChild(childId, parentId, t)
    IN [ T EXCEPT
           !.nodes = [ k \in Keys(T) \cup {childId} |->
                       IF k = childId THEN child
                       ELSE IF k = parentId
                            THEN [ parent EXCEPT
                                     !.childrenIds = Append(parent.childrenIds, childId),
                                     !.updatedAt = t ]
                            ELSE T.nodes[k] ] ]

\* Mutant of addChild: the new child is put first in the parent's childrenIds.
addChild_Prepend(T, parentId, childId, t) ==
  IF parentId \notin Keys(T) THEN T
  ELSE
    LET parent == T.nodes[parentId]
        child == newChild(childId, parentId, t)
    IN [ T EXCEPT
           !.activeNodeId = childId,
           !.nodes = [ k \in Keys(T) \cup {childId} |->
                       IF k = childId THEN child
                       ELSE IF k = parentId
                            THEN [ parent EXCEPT
                                     !.childrenIds = <<childId>> \o parent.childrenIds,
                                     !.updatedAt = t ]
                            ELSE T.nodes[k] ] ]

addChild(T, parentId, childId, t) ==
  IF parentId \notin Keys(T) THEN T
  ELSE
    LET parent == T.nodes[parentId]
        child == newChild(childId, parentId, t)
    IN [ T EXCEPT
           !.activeNodeId = childId,
           !.nodes = [ k \in Keys(T) \cup {childId} |->
                       IF k = childId THEN child
                       ELSE IF k = parentId
                            THEN [ parent EXCEPT
                                     !.childrenIds = Append(parent.childrenIds, childId),
                                     !.updatedAt = t ]
                            ELSE T.nodes[k] ] ]

\* Mutant of toggleCollapse: the flag of the node's children is flipped too.
toggleCollapse_Cascade(T, nodeId, t) ==
  IF nodeId \notin Keys(T) THEN T
  ELSE [ T EXCEPT
           !.nodes = [ k \in Keys(T) |->
                       IF k = nodeId
                       THEN [ T.nodes[k] EXCEPT !.isCollapsed = ~T.nodes[k].isCollapsed,
                                                !.updatedAt = t ]
                       ELSE IF includes(T.nodes[nodeId].childrenIds, k)
                            THEN [ T.nodes[k] EXCEPT
                                     !.isCollapsed = ~T.nodes[k].isCollapsed ]
                            ELSE T.nodes[k] ] ]

\* Mutant of toggleCollapse: the toggled node also becomes the active node.
toggleCollapse_Activates(T, nodeId, t) ==
  IF nodeId \notin Keys(T) THEN T
  ELSE [ T EXCEPT !.activeNodeId = nodeId,
                  !.nodes[nodeId].isCollapsed = ~T.nodes[nodeId].isCollapsed,
                  !.nodes[nodeId].updatedAt = t ]

\* Mutant of toggleCollapse: the flag is set instead of flipped.
toggleCollapse_SetsCollapsed(T, nodeId, t) ==
  IF nodeId \notin Keys(T) THEN T
  ELSE [ T EXCEPT !.nodes[nodeId].isCollapsed = TRUE,
                  !.nodes[nodeId].updatedAt = t ]

toggleCollapse(T, nodeId, t) ==
  IF nodeId \notin Keys(T) THEN T
  ELSE [ T EXCEPT !.nodes[nodeId].isCollapsed = ~T.nodes[nodeId].isCollapsed,
                  !.nodes[nodeId].updatedAt = t ]

\* Mutant of setActiveNode: the selected node is also expanded.
setActiveNode_Expands(T, nodeId) ==
  IF nodeId \notin Keys(T) THEN T
  ELSE [ T EXCEPT !.activeNodeId = nodeId,
                  !.nodes[nodeId].isCollapsed = FALSE ]

\* Mutant of setActiveNode: the existence check is missing.
setActiveNode_NoCheck(T, nodeId) == [ T EXCEPT !.activeNodeId = nodeId ]

setActiveNode(T, nodeId) ==
  IF nodeId \notin Keys(T) THEN T
  ELSE [ T EXCEPT !.activeNodeId = nodeId ]

appendMessage(T, nodeId, role, content, msgId, t) ==
  IF nodeId \notin Keys(T) THEN T
  ELSE
    LET node == T.nodes[nodeId]
        msg == [ id |-> msgId, role |-> role, content |-> content, createdAt |-> t ]
    IN [ T EXCEPT
           !.nodes[nodeId] =
             [ node EXCEPT
                 !.messages = Append(node.messages, msg),
                 !.updatedAt = t,
                 !.title = IF node.title = DefaultTitle /\ role = "user"
                           THEN slice0(content, TitleSliceLen)
                           ELSE node.title ] ]

renameNode(T, nodeId, title, t) ==
  IF nodeId \notin Keys(T) THEN T
  ELSE [ T EXCEPT
           !.nodes[nodeId].title =
             IF trim(title) = <<>> THEN UntitledTitle ELSE trim(title),
           !.nodes[nodeId].updatedAt = t ]

\* Mutant of collectSubtree: the children of a collected node are not pushed.
RECURSIVE collectSubtree_Shallow(_, _, _)
collectSubtree_Shallow(T, stack, toDelete) ==
  IF stack = <<>> THEN toDelete
  ELSE
    LET curId == stack[Len(stack)]
        rest == SubSeq(stack, 1, Len(stack) - 1)
    IN IF curId \in toDelete THEN collectSubtree_Shallow(T, rest, toDelete)
       ELSE collectSubtree_Shallow(T, rest, toDelete \cup {curId})

\* The worklist loop of deleteSubtree: pops the last id of the stack, skips
\* ids already collected, collects the id, and pushes its children when the
\* node exists.
RECURSIVE collectSubtree(_, _, _)
collectSubtree(T, stack, toDelete) ==
  IF stack = <<>> THEN toDelete
  ELSE
    LET curId == stack[Len(stack)]
        rest == SubSeq(stack, 1, Len(stack) - 1)
    IN IF curId \in toDelete THEN collectSubtree(T, rest, toDelete)
       ELSE IF curId \notin Keys(T)
            THEN collectSubtree(T, rest, toDelete \cup {curId})
            ELSE collectSubtree(T, rest \o T.nodes[curId].childrenIds,
                                toDelete \cup {curId})

\* Mutant of nextActive: the repair always jumps to the root.
nextActive_ToRoot(T, toDelete, parentId) ==
  IF T.activeNodeId \in toDelete THEN T.rootId ELSE T.activeNodeId

\* The active-node repair of deleteSubtree: parentId ?? rootId when the
\* active node is deleted.
nextActive(T, toDelete, parentId) ==
  IF T.activeNodeId \in toDelete
  THEN (IF parentId # NULL THEN parentId ELSE T.rootId)
  ELSE T.activeNodeId

\* Mutant of deleteGuard: the root is not protected.
deleteGuard_NoRoot(T, nodeId) == nodeId \notin Keys(T)

\* The early returns of deleteSubtree.
deleteGuard(T, nodeId) == nodeId = T.rootId \/ nodeId \notin Keys(T)

deleteSubtree(T, nodeId, t) ==
  IF deleteGuard(T, nodeId) THEN T
  ELSE
    LET node == T.nodes[nodeId]
        toDelete == collectSubtree(T, <<nodeId>>, {})
        parentId == node.parentId
        hasParent == parentId # NULL /\ parentId \in Keys(T)
        kept == Keys(T) \ toDelete
        newKeys == IF hasParent THEN kept \cup {parentId} ELSE kept
    IN [ T EXCEPT
           !.activeNodeId = nextActive(T, toDelete, parentId),
           !.nodes = [ k \in newKeys |->
                       IF hasParent /\ k = parentId
                       THEN [ T.nodes[parentId] EXCEPT
                                !.childrenIds =
                                  filterOut(T.nodes[parentId].childrenIds, toDelete),
                                !.updatedAt = t ]
                       ELSE T.nodes[k] ] ]

(***************************************************************************)
(* Undo capture and restore (App).                                         *)
(***************************************************************************)
NoSnapshot ==
  [ rootId |-> NULL, parentId |-> NULL, parentIndex |-> -1, nodes |-> <<>> ]

\* Mutant of collectSnapshot: the children of a copied node are not pushed.
RECURSIVE collectSnapshot_Shallow(_, _, _)
collectSnapshot_Shallow(T, stack, got) ==
  IF stack = <<>> THEN got
  ELSE
    LET curId == stack[Len(stack)]
        rest == SubSeq(stack, 1, Len(stack) - 1)
    IN IF curId \notin Keys(T) \/ curId \in got
       THEN collectSnapshot_Shallow(T, rest, got)
       ELSE collectSnapshot_Shallow(T, rest, got \cup {curId})

\* The worklist loop of captureDeletedSubtree: skips ids that are missing
\* from the tree or already copied.
RECURSIVE collectSnapshot(_, _, _)
collectSnapshot(T, stack, got) ==
  IF stack = <<>> THEN got
  ELSE
    LET curId == stack[Len(stack)]
        rest == SubSeq(stack, 1, Len(stack) - 1)
    IN IF curId \notin Keys(T) \/ curId \in got
       THEN collectSnapshot(T, rest, got)
       ELSE collectSnapshot(T, rest \o T.nodes[curId].childrenIds,
                            got \cup {curId})

\* Mutant of parentIndexOf: the parent's own id is looked up.
parentIndexOf_WrongId(T, nodeId) ==
  LET parentId == T.nodes[nodeId].parentId
  IN IF parentId # NULL /\ parentId \in Keys(T)
     THEN indexOf(T.nodes[parentId].childrenIds, parentId)
     ELSE -1

\* parent?.childrenIds.indexOf(nodeId) ?? -1
parentIndexOf(T, nodeId) ==
  LET parentId == T.nodes[nodeId].parentId
  IN IF parentId # NULL /\ parentId \in Keys(T)
     THEN indexOf(T.nodes[parentId].childrenIds, nodeId)
     ELSE -1

captureDeletedSubtree(T, nodeId) ==
  IF nodeId \notin Keys(T) \/ nodeId = T.rootId THEN NoSnapshot
  ELSE
    LET parentId == T.nodes[nodeId].parentId
        got == collectSnapshot(T, <<nodeId>>, {})
    IN [ rootId |-> nodeId,
         parentId |-> parentId,
         parentIndex |-> parentIndexOf(T, nodeId),
         nodes |-> [ k \in got |-> T.nodes[k] ] ]

\* Mutant of restoreDeletedSubtree: the active node is switched to the
\* snapshot root before the parent is looked up.
restoreDeletedSubtree_ActiveFirst(T, snapshot, t) ==
  IF snapshot.parentId = NULL THEN [ T EXCEPT !.activeNodeId = snapshot.rootId ]
  ELSE IF snapshot.parentId \notin Keys(T)
       THEN [ T EXCEPT !.activeNodeId = snapshot.rootId ]
  ELSE
    LET parentId == snapshot.parentId
        parent == T.nodes[parentId]
        children == parent.childrenIds
        insertAt == IF snapshot.parentIndex >= 0 /\ snapshot.parentIndex <= Len(children)
                    THEN snapshot.parentIndex
                    ELSE Len(children)
        nextChildren == IF includes(children, snapshot.rootId) THEN children
                        ELSE spliceIn(children, insertAt, snapshot.rootId)
    IN [ T EXCEPT
           !.activeNodeId = snapshot.rootId,
           !.nodes = [ k \in Keys(T) \cup DOMAIN snapshot.nodes |->
                       IF k = parentId
                       THEN [ parent EXCEPT !.childrenIds = nextChildren,
                                            !.updatedAt = t ]
                       ELSE IF k \in DOMAIN snapshot.nodes THEN snapshot.nodes[k]
                            ELSE T.nodes[k] ] ]

\* Mutant of restoreDeletedSubtree: the snapshot root is always re-attached
\* at the end of the parent's childrenIds.
restoreDeletedSubtree_Append(T, snapshot, t) ==
  IF snapshot.parentId = NULL THEN T
  ELSE IF snapshot.parentId \notin Keys(T) THEN T
  ELSE
    LET parentId == snapshot.parentId
        parent == T.nodes[parentId]
        children == parent.childrenIds
        nextChildren == IF includes(children, snapshot.rootId) THEN children
                        ELSE spliceIn(children, Len(children), snapshot.rootId)
    IN [ T EXCEPT
           !.activeNodeId = snapshot.rootId,
           !.nodes = [ k \in Keys(T) \cup DOMAIN snapshot.nodes |->
                       IF k = parentId
                       THEN [ parent EXCEPT !.childrenIds = nextChildren,
                                            !.updatedAt = t ]
                       ELSE IF k \in DOMAIN snapshot.nodes THEN snapshot.nodes[k]
                            ELSE T.nodes[k] ] ]

\* Mutant of restoreDeletedSubtree: the snapshot root is inserted without
\* looking for it in the parent's childrenIds.
restoreDeletedSubtree_NoIncludesCheck(T, snapshot, t) ==
  IF snapshot.parentId = NULL THEN T
  ELSE IF snapshot.parentId \notin Keys(T) THEN T
  ELSE
    LET parentId == snapshot.parentId
        parent == T.nodes[parentId]
        children == parent.childrenIds
        insertAt == IF snapshot.parentIndex >= 0 /\ snapshot.parentIndex <= Len(children)
                    THEN snapshot.parentIndex
                    ELSE Len(children)
        nextChildren == spliceIn(children, insertAt, snapshot.rootId)
    IN [ T EXCEPT
           !.activeNodeId = snapshot.rootId,
           !.nodes = [ k \in Keys(T) \cup DOMAIN snapshot.nodes |->
                       IF k = parentId
                       THEN [ parent EXCEPT !.childrenIds = nextChildren,
                                            !.updatedAt = t ]
                       ELSE IF k \in DOMAIN snapshot.nodes THEN snapshot.nodes[k]
                            ELSE T.nodes[k] ] ]

restoreDeletedSubtree(T, snapshot, t) ==
  IF snapshot.parentId = NULL THEN T
  ELSE IF snapshot.parentId \notin Keys(T) THEN T
  ELSE
    LET parentId == snapshot.parentId
        parent == T.nodes[parentId]
        children == parent.childrenIds
        insertAt == IF snapshot.parentIndex >= 0 /\ snapshot.parentIndex <= Len(children)
                    THEN snapshot.parentIndex
                    ELSE Len(children)
        nextChildren == IF includes(children, snapshot.rootId) THEN children
                        ELSE spliceIn(children, insertAt, snapshot.rootId)
    IN [ T EXCEPT
           !.activeNodeId = snapshot.rootId,
           !.nodes = [ k \in Keys(T) \cup DOMAIN snapshot.nodes |->
                       IF k = parentId
                       THEN [ parent EXCEPT !.childrenIds = nextChildren,
                                            !.updatedAt = t ]
                       ELSE IF k \in DOMAIN snapshot.nodes THEN snapshot.nodes[k]
                            ELSE T.nodes[k] ] ]

(***************************************************************************)
(* The state machine: one tree value held in a state slot, the snapshot    *)
(* slot, the id sources and the clock.                                     *)
(***************************************************************************)
\* No deleteSubtree call is in progress.
NoCall ==
  [ pc |-> "idle", nodeId |-> NULL, stack |-> <<>>, toDelete |-> {},
    adds |-> <<>>, steps |-> 0 ]

\* The error slot holding null.
NoError == "null"

\* No file has been exported.
NoFile == [ rootId |-> NULL, activeNodeId |-> NULL, nodes |-> <<>> ]

\* No alert has been shown.
NoAlert == "none"

\* The state outside the tree core when the tree is first shown.
InitApp ==
  /\ del = NoCall
  /\ isGenerating = FALSE
  /\ abortRef = NULL
  /\ inflight = {}
  /\ nextReqId = 1
  /\ error = NoError
  /\ lastRequest = NULL
  /\ activeTreeId = 1
  /\ treeList = <<1>>
  /\ storage = [ w \in {1} |-> tree ]
  /\ saveTimer = TRUE
  /\ nextWsId = 2
  /\ exported = NoFile
  /\ alerted = NoAlert

Init ==
  /\ tree = createEmptyTree(1, 0)
  /\ lastDeleted = NoSnapshot
  /\ nextId = 2
  /\ nextMsgId = 1
  /\ clock = 0
  /\ edits = 0
  /\ InitApp

Tick ==
  /\ clock < MaxClock
  /\ clock' = clock + 1
  /\ UNCHANGED <<tree, lastDeleted, nextId, nextMsgId, edits>>
  /\ UNCHANGED appVars

AddChild ==
  \E parentId \in ArgIds :
    /\ nextId <= MaxNodes
    /\ tree' = addChild(tree, parentId, nextId, clock)
    /\ nextId' = IF parentId \in Keys(tree) THEN nextId + 1 ELSE nextId
    /\ UNCHANGED <<lastDeleted, nextMsgId, clock, edits>>
    /\ UNCHANGED appVars

ToggleCollapse ==
  \E nodeId \in ArgIds :
    /\ edits < MaxEdits
    /\ tree' = toggleCollapse(tree, nodeId, clock)
    /\ edits' = IF nodeId \in Keys(tree) THEN edits + 1 ELSE edits
    /\ UNCHANGED <<lastDeleted, nextId, nextMsgId, clock>>
    /\ UNCHANGED appVars

SetActiveNode ==
  \E nodeId \in ArgIds :
    /\ tree' = setActiveNode(tree, nodeId)
    /\ UNCHANGED <<lastDeleted, nextId, nextMsgId, clock, edits>>
    /\ UNCHANGED appVars

AppendMessage ==
  \E nodeId \in ArgIds, role \in Roles, content \in Contents :
    /\ edits < MaxEdits
    /\ tree' = appendMessage(tree, nodeId, role, content, nextMsgId, clock)
    /\ nextMsgId' = IF nodeId \in Keys(tree) THEN nextMsgId + 1 ELSE nextMsgId
    /\ edits' = IF nodeId \in Keys(tree) THEN edits + 1 ELSE edits
    /\ UNCHANGED <<lastDeleted, nextId, clock>>
    /\ UNCHANGED appVars

RenameNode ==
  \E nodeId \in ArgIds, title \in RenameInputs :
    /\ edits < MaxEdits
    /\ tree' = renameNode(tree, nodeId, title, clock)
    /\ edits' = IF nodeId \in Keys(tree) THEN edits + 1 ELSE edits
    /\ UNCHANGED <<lastDeleted, nextId, nextMsgId, clock>>
    /\ UNCHANGED appVars

DeleteSubtree ==
  \E nodeId \in ArgIds :
    /\ tree' = deleteSubtree(tree, nodeId, clock)
    /\ UNCHANGED <<lastDeleted, nextId, nextMsgId, clock, edits>>
    /\ UNCHANGED appVars

Capture ==
  \E nodeId \in ArgIds :
    /\ captureDeletedSubtree(tree, nodeId) # NoSnapshot
    /\ lastDeleted' = captureDeletedSubtree(tree, nodeId)
    /\ UNCHANGED <<tree, nextId, nextMsgId, clock, edits>>
    /\ UNCHANGED appVars

Restore ==
  /\ lastDeleted # NoSnapshot
  /\ tree' = restoreDeletedSubtree(tree, lastDeleted, clock)
  /\ UNCHANGED <<lastDeleted, nextId, nextMsgId, clock, edits>>
  /\ UNCHANGED appVars

Next ==
  \/ Tick
  \/ AddChild
  \/ ToggleCollapse
  \/ SetActiveNode
  \/ AppendMessage
  \/ RenameNode
  \/ DeleteSubtree
  \/ Capture
  \/ Restore

Spec == Init /\ [][Next]_vars

(***************************************************************************)
(* The App's undo protocol: the delete handler captures the snapshot in    *)
(* the same state update that deletes, and the Undo button restores from   *)
(* the slot and clears it.                                                 *)
(***************************************************************************)
OnDelete ==
  \E nodeId \in ArgIds :
    /\ tree' = deleteSubtree(tree, nodeId, clock)
    /\ lastDeleted' = IF captureDeletedSubtree(tree, nodeId) # NoSnapshot
                      THEN captureDeletedSubtree(tree, nodeId)
                      ELSE lastDeleted
    /\ UNCHANGED <<nextId, nextMsgId, clock, edits>>
    /\ UNCHANGED appVars

\* Mutant of UndoDelete: the slot is not cleared.
UndoDelete_KeepsSlot ==
  /\ lastDeleted # NoSnapshot
  /\ tree' = restoreDeletedSubtree(tree, lastDeleted, clock)
  /\ UNCHANGED <<lastDeleted, nextId, nextMsgId, clock, edits>>
  /\ UNCHANGED appVars

UndoDelete ==
  /\ lastDeleted # NoSnapshot
  /\ tree' = restoreDeletedSubtree(tree, lastDeleted, clock)
  /\ lastDeleted' = NoSnapshot
  /\ UNCHANGED <<nextId, nextMsgId, clock, edits>>
  /\ UNCHANGED appVars

NextApp ==
  \/ Tick
  \/ AddChild
  \/ ToggleCollapse
  \/ SetActiveNode
  \/ AppendMessage
  \/ RenameNode
  \/ OnDelete
  \/ UndoDelete

SpecApp == Init /\ [][NextApp]_vars

(***************************************************************************)
(* deleteSubtree step by step: the worklist loop run one iteration at a    *)
(* time on tree values that need not be well formed (childrenIds with      *)
(* cycles, repeated ids and ids missing from nodes), as an imported file   *)
(* can supply them.                                                        *)
(***************************************************************************)
\* Node ids of the trees the loop is run on.
MaxLoopNodes == 3
\* Longest childrenIds of those trees.
MaxLoopChildren == 2
\* Iterations after which the loop is cut off; more than the pushes a loop
\* that collects each id once can make.
MaxSteps == 2 + MaxLoopNodes * MaxLoopChildren

\* Ids a childrenIds entry may hold: every node id and one missing id.
LoopIds == 1 .. (MaxLoopNodes + 1)

ChildLists ==
  UNION { [ 1 .. n -> LoopIds ] : n \in 0 .. MaxLoopChildren }

\* Tree values with root 1 and arbitrary childrenIds.
LoopTrees ==
  { [ rootId |-> 1,
      activeNodeId |-> 1,
      nodes |-> [ k \in 1 .. MaxLoopNodes |->
                  [ id |-> k, title |-> DefaultTitle,
                    parentId |-> IF k = 1 THEN NULL ELSE 1,
                    childrenIds |-> c[k], isCollapsed |-> FALSE,
                    messages |-> <<>>, createdAt |-> 0, updatedAt |-> 0 ] ] ] :
    c \in [ 1 .. MaxLoopNodes -> ChildLists ] }

InitLoop ==
  /\ tree \in LoopTrees
  /\ lastDeleted = NoSnapshot
  /\ nextId = MaxLoopNodes + 2
  /\ nextMsgId = 1
  /\ clock = 1
  /\ edits = 0
  /\ InitApp

\* The call and its early returns; the stack starts as [nodeId].
DeleteStart ==
  \E nodeId \in LoopIds :
    /\ del.pc = "idle"
    /\ del' = IF deleteGuard(tree, nodeId)
              THEN [ NoCall EXCEPT !.pc = "done", !.nodeId = nodeId ]
              ELSE [ NoCall EXCEPT !.pc = "loop", !.nodeId = nodeId,
                                   !.stack = <<nodeId>> ]
    /\ UNCHANGED <<coreVars, exceptDel>>

\* Mutant of CollectStep: ids already collected are not skipped.
CollectStep_NoVisitedCheck ==
  /\ del.pc = "loop"
  /\ del.stack # <<>>
  /\ del.steps < MaxSteps
  /\ LET curId == del.stack[Len(del.stack)]
         rest == SubSeq(del.stack, 1, Len(del.stack) - 1)
     IN del' = [ del EXCEPT
                   !.stack = IF curId \in Keys(tree)
                             THEN rest \o tree.nodes[curId].childrenIds
                             ELSE rest,
                   !.toDelete = @ \cup {curId},
                   !.adds = Append(@, curId),
                   !.steps = @ + 1 ]
  /\ UNCHANGED <<coreVars, exceptDel>>

\* One iteration of the while loop.
CollectStep ==
  /\ del.pc = "loop"
  /\ del.stack # <<>>
  /\ del.steps < MaxSteps
  /\ LET curId == del.stack[Len(del.stack)]
         rest == SubSeq(del.stack, 1, Len(del.stack) - 1)
     IN del' = IF curId \in del.toDelete
               THEN [ del EXCEPT !.stack = rest, !.steps = @ + 1 ]
               ELSE [ del EXCEPT
                        !.stack = IF curId \in Keys(tree)
                                  THEN rest \o tree.nodes[curId].childrenIds
                                  ELSE rest,
                        !.toDelete = @ \cup {curId},
                        !.adds = Append(@, curId),
                        !.steps = @ + 1 ]
  /\ UNCHANGED <<coreVars, exceptDel>>

\* The loop has ended: the rest of deleteSubtree builds the result.
DeleteFinish ==
  /\ del.pc = "loop"
  /\ del.stack = <<>>
  /\ tree' = deleteSubtree(tree, del.nodeId, clock)
  /\ del' = [ del EXCEPT !.pc = "done" ]
  /\ UNCHANGED <<lastDeleted, nextId, nextMsgId, clock, edits, exceptDel>>

NextLoop ==
  \/ DeleteStart
  \/ CollectStep
  \/ DeleteFinish

\* deleteSubtree is synchronous: once called it runs on.
SpecLoop ==
  InitLoop /\ [][NextLoop]_vars /\ WF_vars(CollectStep) /\ WF_vars(DeleteFinish)

(***************************************************************************)
(* Chat requests (App): sendUserMessage, retryLastRequest, cancelRequest   *)
(* and the settling of a sendChat call.                                    *)
(***************************************************************************)
\* AbortControllers made in one behaviour.
MaxRequests == 3

\* Raw texts of the input box.
ChatInputs == { <<" ", "h", "i">>, <<" ">> }

\* controller.abort() on the controller with this id, if its call is
\* still in flight.
abort(reqs, id) ==
  { IF r.id = id THEN [ r EXCEPT !.aborted = TRUE ] ELSE r : r \in reqs }

\* The ways a sendChat call can settle: a call whose signal is aborted
\* rejects with an AbortError and never completes; any other call returns
\* a response or fails.
sendChat(r) ==
  IF r.aborted THEN {"AbortError"} ELSE {"response", "failure"}

\* Mutant of SendUserMessage: the previous controller is not aborted.
SendUserMessage_NoAbortPrevious ==
  \E input \in ChatInputs :
    LET text == trim(input)
        nodeId == tree.nodes[tree.activeNodeId].id
    IN /\ nextReqId <= MaxRequests
       /\ text # <<>>
       /\ tree.activeNodeId \in Keys(tree)
       /\ ~isGenerating
       /\ tree' = appendMessage(tree, tree.activeNodeId, "user", text, nextMsgId, clock)
       /\ nextMsgId' = nextMsgId + 1
       /\ error' = NoError
       /\ inflight' = inflight
                        \cup { [ id |-> nextReqId, nodeId |-> nodeId, aborted |-> FALSE ] }
       /\ abortRef' = nextReqId
       /\ nextReqId' = nextReqId + 1
       /\ isGenerating' = TRUE
       /\ lastRequest' = nodeId
       /\ UNCHANGED <<lastDeleted, nextId, clock, edits, exceptChat>>

SendUserMessage ==
  \E input \in ChatInputs :
    LET text == trim(input)
        nodeId == tree.nodes[tree.activeNodeId].id
    IN /\ nextReqId <= MaxRequests
       /\ text # <<>>
       /\ tree.activeNodeId \in Keys(tree)
       /\ ~isGenerating
       /\ tree' = appendMessage(tree, tree.activeNodeId, "user", text, nextMsgId, clock)
       /\ nextMsgId' = nextMsgId + 1
       /\ error' = NoError
       /\ inflight' = abort(inflight, abortRef)
                        \cup { [ id |-> nextReqId, nodeId |-> nodeId, aborted |-> FALSE ] }
       /\ abortRef' = nextReqId
       /\ nextReqId' = nextReqId + 1
       /\ isGenerating' = TRUE
       /\ lastRequest' = nodeId
       /\ UNCHANGED <<lastDeleted, nextId, clock, edits, exceptChat>>

\* Mutant of RetryLastRequest: the recorded node is not looked up.
RetryLastRequest_NoExistenceCheck ==
  /\ error # NoError
  /\ lastRequest # NULL
  /\ ~isGenerating
  /\ nextReqId <= MaxRequests
  /\ error' = NoError
  /\ inflight' = abort(inflight, abortRef)
                   \cup { [ id |-> nextReqId, nodeId |-> lastRequest,
                            aborted |-> FALSE ] }
  /\ abortRef' = nextReqId
  /\ nextReqId' = nextReqId + 1
  /\ isGenerating' = TRUE
  /\ UNCHANGED lastRequest
  /\ UNCHANGED <<coreVars, exceptChat>>

\* The Retry button is rendered only beside an error message.
RetryLastRequest ==
  /\ error # NoError
  /\ lastRequest # NULL
  /\ ~isGenerating
  /\ IF lastRequest \notin Keys(tree)
     THEN /\ error' = "That thread no longer exists."
          /\ lastRequest' = NULL
          /\ UNCHANGED <<inflight, abortRef, nextReqId, isGenerating>>
     ELSE /\ nextReqId <= MaxRequests
          /\ error' = NoError
          /\ inflight' = abort(inflight, abortRef)
                           \cup { [ id |-> nextReqId, nodeId |-> lastRequest,
                                    aborted |-> FALSE ] }
          /\ abortRef' = nextReqId
          /\ nextReqId' = nextReqId + 1
          /\ isGenerating' = TRUE
          /\ UNCHANGED lastRequest
  /\ UNCHANGED <<coreVars, exceptChat>>

\* Mutant of CancelRequest: the flag is cleared but the controller is not
\* aborted.
CancelRequest_NoAbort ==
  /\ isGenerating
  /\ abortRef' = NULL
  /\ isGenerating' = FALSE
  /\ UNCHANGED <<inflight, nextReqId, error, lastRequest, coreVars, exceptChat>>

CancelRequest ==
  /\ isGenerating
  /\ inflight' = abort(inflight, abortRef)
  /\ abortRef' = NULL
  /\ isGenerating' = FALSE
  /\ UNCHANGED <<nextReqId, error, lastRequest, coreVars, exceptChat>>

\* Mutant of RequestResolves: the response goes to the node that is active
\* when the call returns.
RequestResolves_ToActive ==
  \E r \in inflight, response \in Contents :
    /\ "response" \in sendChat(r)
    /\ tree' = appendMessage(tree, tree.activeNodeId, "assistant", response,
                             nextMsgId, clock)
    /\ nextMsgId' = IF tree.activeNodeId \in Keys(tree) THEN nextMsgId + 1 ELSE nextMsgId
    /\ inflight' = inflight \ {r}
    /\ isGenerating' = FALSE
    /\ lastRequest' = NULL
    /\ UNCHANGED <<lastDeleted, nextId, clock, edits, abortRef, nextReqId, error,
                   exceptChat>>

\* The awaited sendChat call returns a response.
RequestResolves ==
  \E r \in inflight, response \in Contents :
    /\ "response" \in sendChat(r)
    /\ tree' = appendMessage(tree, r.nodeId, "assistant", response, nextMsgId, clock)
    /\ nextMsgId' = IF r.nodeId \in Keys(tree) THEN nextMsgId + 1 ELSE nextMsgId
    /\ inflight' = inflight \ {r}
    /\ isGenerating' = FALSE
    /\ lastRequest' = NULL
    /\ UNCHANGED <<lastDeleted, nextId, clock, edits, abortRef, nextReqId, error,
                   exceptChat>>

\* The awaited sendChat call throws.
RequestRejects ==
  \E r \in inflight :
    \E outcome \in sendChat(r) \ {"response"} :
      /\ error' = IF outcome = "AbortError" THEN error ELSE "Unknown error."
      /\ inflight' = inflight \ {r}
      /\ isGenerating' = FALSE
      /\ UNCHANGED <<coreVars, abortRef, nextReqId, lastRequest, exceptChat>>

NextChat ==
  \/ AddChild
  \/ SetActiveNode
  \/ DeleteSubtree
  \/ SendUserMessage
  \/ RetryLastRequest
  \/ CancelRequest
  \/ RequestResolves
  \/ RequestRejects

SpecChat == Init /\ [][NextChat]_vars

(***************************************************************************)
(* Workspaces (App): the debounced save effect, the workspace list         *)
(* handlers, Reset, Export JSON and Import JSON, with the tree handlers    *)
(* and the Undo button as they run inside the App (every change of the     *)
(* tree re-arms the save effect's timeout).                                *)
(***************************************************************************)
\* Workspace ids makeId() can hand out, the first workspace's included.
MaxWorkspaces == 2

\* The save effect after a handler: a new tree value or a new workspace
\* list clears the pending timeout and sets a new one.
rearmed(newTree) == IF newTree # tree THEN TRUE ELSE saveTimer

\* loadTree: the tree saved under the id, or null.
canLoad(store, id) == id \in DOMAIN store

\* saveTree: localStorage.setItem under the workspace's key.
saveTree(store, id, T) ==
  [ w \in DOMAIN store \cup {id} |-> IF w = id THEN T ELSE store[w] ]

\* The ids of a workspace list.
ListIds(list) == { list[i] : i \in 1 .. Len(list) }

AddChildInApp ==
  \E parentId \in ArgIds :
    /\ nextId <= MaxNodes
    /\ tree' = addChild(tree, parentId, nextId, clock)
    /\ nextId' = IF parentId \in Keys(tree) THEN nextId + 1 ELSE nextId
    /\ saveTimer' = rearmed(tree')
    /\ UNCHANGED <<lastDeleted, nextMsgId, clock, edits>>
    /\ UNCHANGED <<activeTreeId, treeList, storage, nextWsId, fileVars, exceptStore>>

OnDeleteInApp ==
  \E nodeId \in ArgIds :
    /\ tree' = deleteSubtree(tree, nodeId, clock)
    /\ lastDeleted' = IF captureDeletedSubtree(tree, nodeId) # NoSnapshot
                      THEN captureDeletedSubtree(tree, nodeId)
                      ELSE lastDeleted
    /\ saveTimer' = rearmed(tree')
    /\ UNCHANGED <<nextId, nextMsgId, clock, edits>>
    /\ UNCHANGED <<activeTreeId, treeList, storage, nextWsId, fileVars, exceptStore>>

UndoDeleteInApp ==
  /\ lastDeleted # NoSnapshot
  /\ tree' = restoreDeletedSubtree(tree, lastDeleted, clock)
  /\ lastDeleted' = NoSnapshot
  /\ saveTimer' = rearmed(tree')
  /\ UNCHANGED <<nextId, nextMsgId, clock, edits>>
  /\ UNCHANGED <<activeTreeId, treeList, storage, nextWsId, fileVars, exceptStore>>

\* The timeout of the save effect fires: the tree is written under
\* activeTreeId; the effect's update of the workspace list (title,
\* updatedAt: Date.now()) may set a new timeout.
SaveTimerFires ==
  /\ saveTimer
  /\ storage' = IF activeTreeId = NULL THEN storage
                ELSE saveTree(storage, activeTreeId, tree)
  /\ \E again \in BOOLEAN : saveTimer' = again
  /\ UNCHANGED <<coreVars, activeTreeId, treeList, nextWsId, fileVars, exceptStore>>

HandleNewTree ==
  /\ nextWsId <= MaxWorkspaces
  /\ nextId <= MaxNodes
  /\ LET newTree == createEmptyTree(nextId, clock)
     IN /\ treeList' = <<nextWsId>> \o treeList
        /\ storage' = saveTree(storage, nextWsId, newTree)
        /\ tree' = newTree
  /\ activeTreeId' = nextWsId
  /\ nextWsId' = nextWsId + 1
  /\ nextId' = nextId + 1
  /\ saveTimer' = TRUE
  /\ UNCHANGED <<lastDeleted, nextMsgId, clock, edits, fileVars, exceptStore>>

HandleSwitchTree ==
  \E id \in ListIds(treeList) :
    /\ id # activeTreeId
    /\ canLoad(storage, id)
    /\ tree' = storage[id]
    /\ activeTreeId' = id
    /\ saveTimer' = TRUE
    /\ UNCHANGED <<lastDeleted, nextId, nextMsgId, clock, edits>>
    /\ UNCHANGED <<treeList, storage, nextWsId, fileVars, exceptStore>>

\* Mutant of HandleDeleteTree: deleting the active workspace does not make
\* another workspace active.
HandleDeleteTree_NoSwitch ==
  \E id \in ListIds(treeList) :
    IF Len(treeList) <= 1
    THEN /\ alerted' = "You must have at least one workspace."
         /\ UNCHANGED <<coreVars, storeVars, exported, exceptStore>>
    ELSE LET newList == SelectSeq(treeList, LAMBDA m : m # id)
             newStore == [ w \in DOMAIN storage \ {id} |-> storage[w] ]
         IN /\ treeList' = newList
            /\ storage' = newStore
            /\ saveTimer' = TRUE
            /\ UNCHANGED <<tree, activeTreeId>>
            /\ UNCHANGED <<lastDeleted, nextId, nextMsgId, clock, edits>>
            /\ UNCHANGED <<nextWsId, fileVars, exceptStore>>

HandleDeleteTree ==
  \E id \in ListIds(treeList) :
    IF Len(treeList) <= 1
    THEN /\ alerted' = "You must have at least one workspace."
         /\ UNCHANGED <<coreVars, storeVars, exported, exceptStore>>
    ELSE LET newList == SelectSeq(treeList, LAMBDA m : m # id)
             newStore == [ w \in DOMAIN storage \ {id} |-> storage[w] ]
             switches == id = activeTreeId /\ canLoad(newStore, newList[1])
         IN /\ treeList' = newList
            /\ storage' = newStore
            /\ tree' = IF switches THEN newStore[newList[1]] ELSE tree
            /\ activeTreeId' = IF switches THEN newList[1] ELSE activeTreeId
            /\ saveTimer' = TRUE
            /\ UNCHANGED <<lastDeleted, nextId, nextMsgId, clock, edits>>
            /\ UNCHANGED <<nextWsId, fileVars, exceptStore>>

Reset ==
  /\ nextId <= MaxNodes
  /\ tree' = createEmptyTree(nextId, clock)
  /\ storage' = saveTree(storage, activeTreeId, createEmptyTree(nextId, clock))
  /\ nextId' = nextId + 1
  /\ saveTimer' = TRUE
  /\ UNCHANGED <<lastDeleted, nextMsgId, clock, edits>>
  /\ UNCHANGED <<activeTreeId, treeList, nextWsId, fileVars, exceptStore>>

ExportJson ==
  /\ exported' = tree
  /\ UNCHANGED <<coreVars, storeVars, alerted, exceptStore>>

\* A property that is absent from a parsed object (undefined).
Undefined == -1

\* An id that is no node's id but names a property every object inherits
\* from Object.prototype ("constructor", "toString", ...).
ProtoKey == MaxNodes + 2

ObjectPrototypeKeys == {ProtoKey}

\* The nodes of a one-node tree, used as the nodes object of test files.
SampleNodes == createEmptyTree(1, 0).nodes

\* The result of JSON.parse on a file: whether the text parses, and the
\* rootId, activeNodeId and nodes properties of the parsed value (Undefined
\* or hasNodes = FALSE when the property is absent or the value is not an
\* object; NULL for null, "" or 0).
Parsed(parses, rootId, activeNodeId, hasNodes, nodes) ==
  [ parses |-> parses, rootId |-> rootId, activeNodeId |-> activeNodeId,
    hasNodes |-> hasNodes, nodes |-> nodes ]

\* JSON.parse(JSON.stringify(T)) for a tree T: the same rootId,
\* activeNodeId and nodes.
ParsedTree(T) == Parsed(TRUE, T.rootId, T.activeNodeId, TRUE, T.nodes)

\* The files the user can pick.
ImportFiles ==
  { "unparsable", "null", "noRootId", "emptyRootId", "noActiveNodeId",
    "noNodes", "rootNotInNodes", "inheritedRootId", "danglingActive",
    "export" }

parseFile(file) ==
  CASE file = "unparsable"      -> Parsed(FALSE, Undefined, Undefined, FALSE, <<>>)
    [] file = "null"            -> Parsed(TRUE, Undefined, Undefined, FALSE, <<>>)
    [] file = "noRootId"        -> Parsed(TRUE, Undefined, 1, TRUE, SampleNodes)
    [] file = "emptyRootId"     -> Parsed(TRUE, NULL, 1, TRUE, SampleNodes)
    [] file = "noActiveNodeId"  -> Parsed(TRUE, 1, Undefined, TRUE, SampleNodes)
    [] file = "noNodes"         -> Parsed(TRUE, 1, 1, FALSE, <<>>)
    [] file = "rootNotInNodes"  -> Parsed(TRUE, MaxNodes + 1, 1, TRUE, SampleNodes)
    [] file = "inheritedRootId" -> Parsed(TRUE, ProtoKey, 1, TRUE, SampleNodes)
    [] file = "danglingActive"  -> Parsed(TRUE, 1, MaxNodes + 1, TRUE, SampleNodes)
    [] file = "export"          -> ParsedTree(exported)

\* !x for an id-valued property.
falsy(x) == x = Undefined \/ x = NULL

\* Whether obj[key] is truthy: an own entry (a node object) or a property
\* inherited from Object.prototype.
truthyAt(obj, key) == key \in DOMAIN obj \/ key \in ObjectPrototypeKeys

\* The message the import handler alerts for a parsed file, or NoAlert when
\* it accepts the file.
importError(p) ==
  IF ~p.parses THEN "SyntaxError"
  ELSE IF falsy(p.rootId) \/ falsy(p.activeNodeId) \/ ~p.hasNodes
       THEN "Invalid JSON structure"
  ELSE IF ~truthyAt(p.nodes, p.rootId) THEN "Root node missing"
  ELSE NoAlert

\* The tree the import handler leaves in the state slot: the parsed value
\* when no error is thrown, the current tree otherwise.
importJson(T, p) ==
  IF importError(p) = NoAlert
  THEN [ rootId |-> p.rootId, activeNodeId |-> p.activeNodeId, nodes |-> p.nodes ]
  ELSE T

\* The onChange handler of the import input.
ImportJson ==
  \E file \in ImportFiles :
    LET p == parseFile(file)
    IN /\ file = "export" => exported # NoFile
       /\ IF importError(p) = NoAlert
          THEN /\ tree' = importJson(tree, p)
               /\ error' = NoError
               /\ saveTimer' = rearmed(tree')
               /\ UNCHANGED alerted
          ELSE /\ alerted' = importError(p)
               /\ UNCHANGED <<tree, error, saveTimer>>
       /\ UNCHANGED <<lastDeleted, nextId, nextMsgId, clock, edits>>
       /\ UNCHANGED <<activeTreeId, treeList, storage, nextWsId, exported, del>>
       /\ UNCHANGED <<isGenerating, abortRef, inflight, nextReqId, lastRequest>>

\* Editing and persistence: the tree handlers, the save effect and the
\* workspace list.
NextStore ==
  \/ AddChildInApp
  \/ OnDeleteInApp
  \/ SaveTimerFires
  \/ HandleNewTree
  \/ HandleSwitchTree
  \/ HandleDeleteTree
  \/ Reset

SpecStore == Init /\ [][NextStore]_vars

\* Replacing the tree: delete and undo, Reset, the workspace list, export
\* and import.
NextReplace ==
  \/ AddChildInApp
  \/ OnDeleteInApp
  \/ UndoDeleteInApp
  \/ HandleNewTree
  \/ HandleSwitchTree
  \/ Reset
  \/ ExportJson
  \/ ImportJson

SpecReplace == Init /\ [][NextReplace]_vars

(***************************************************************************)
(* The views: the App's filter set (filteredNodeIds), the outline          *)
(* (TreeView) and the graph (MindmapView), as the sets of node ids they    *)
(* put on screen.                                                          *)
(***************************************************************************)
\* Texts of the search box.
SearchTexts == { <<>>, <<" ", "R", "O">>, <<"h", "i">>, <<"N", "e", "w">> }

\* Values of the two time inputs once parsed; NULL is the empty input.
FromTimes == {NULL, 1}
ToTimes == {NULL, 1}

LowerOf(c) ==
  CASE c = "R" -> "r"
    [] c = "N" -> "n"
    [] c = "U" -> "u"
    [] c = "O" -> "o"
    [] OTHER -> c

toLowerCase(s) == [ i \in 1 .. Len(s) |-> LowerOf(s[i]) ]

\* String.prototype.includes.
includesText(s, q) ==
  \E i \in 0 .. (Len(s) - Len(q)) : SubSeq(s, i + 1, i + Len(q)) = q

isInRange(ts, fromMs, toMs) ==
  IF fromMs # NULL /\ ts < fromMs THEN FALSE
  ELSE IF toMs # NULL /\ ts > toMs THEN FALSE
  ELSE TRUE

\* The test one node passes to be a match.
nodeMatches(node, query, fromMs, toMs) ==
  LET hasQuery == Len(query) > 0
      hasTime == fromMs # NULL \/ toMs # NULL
      queryOk ==
        \/ includesText(toLowerCase(node.title), query)
        \/ \E i \in 1 .. Len(node.messages) :
             includesText(toLowerCase(node.messages[i].content), query)
      timeOk ==
        \/ isInRange(node.createdAt, fromMs, toMs)
        \/ isInRange(node.updatedAt, fromMs, toMs)
        \/ \E i \in 1 .. Len(node.messages) :
             isInRange(node.messages[i].createdAt, fromMs, toMs)
  IN (hasQuery => queryOk) /\ (hasTime => timeOk)

\* The parents added for a match: the walk up parentId, ended by a missing
\* parent.
RECURSIVE ancestorsOf(_, _, _)
ancestorsOf(T, cur, got) ==
  LET parentId == T.nodes[cur].parentId
  IN IF parentId = NULL \/ parentId \notin Keys(T) \/ parentId \in got
     THEN got
     ELSE ancestorsOf(T, parentId, got \cup {parentId})

\* The value null of filteredNodeIds.
NoFilter == [ filtered |-> FALSE, ids |-> {} ]

\* Mutant of filteredNodeIds: the ancestors of a match are not added.
filteredNodeIds_NoAncestors(T, searchText, fromTime, toTime) ==
  LET query == toLowerCase(trim(searchText))
  IN IF Len(query) = 0 /\ fromTime = NULL /\ toTime = NULL THEN NoFilter
     ELSE [ filtered |-> TRUE,
            ids |-> { n \in Keys(T) : nodeMatches(T.nodes[n], query, fromTime, toTime) }
                      \cup {T.rootId} ]

filteredNodeIds(T, searchText, fromTime, toTime) ==
  LET query == toLowerCase(trim(searchText))
      matching == { n \in Keys(T) : nodeMatches(T.nodes[n], query, fromTime, toTime) }
  IN IF Len(query) = 0 /\ fromTime = NULL /\ toTime = NULL THEN NoFilter
     ELSE [ filtered |-> TRUE,
            ids |-> matching
                      \cup UNION { ancestorsOf(T, n, {}) : n \in matching }
                      \cup {T.rootId} ]

\* The ids TreeNodeView renders for a node and, below it, for its children.
RECURSIVE TreeNodeView(_, _, _)
TreeNodeView(T, nodeId, visibleNodeIds) ==
  IF visibleNodeIds.filtered /\ nodeId \notin visibleNodeIds.ids THEN {}
  ELSE {nodeId}
         \cup IF T.nodes[nodeId].isCollapsed THEN {}
              ELSE UNION { TreeNodeView(T, cid, visibleNodeIds) :
                             cid \in { T.nodes[nodeId].childrenIds[i] : i \in 1 .. Len(T.nodes[nodeId].childrenIds) } \cap Keys(T) }

\* The ids the outline shows.
TreeView(T, visibleNodeIds) == TreeNodeView(T, T.rootId, visibleNodeIds)

RECURSIVE getVisibleNodeIdsFrom(_, _, _)
getVisibleNodeIdsFrom(T, stack, visible) ==
  IF stack = <<>> THEN visible
  ELSE
    LET nodeId == stack[Len(stack)]
        rest == SubSeq(stack, 1, Len(stack) - 1)
    IN IF nodeId \in visible \/ nodeId \notin Keys(T)
       THEN getVisibleNodeIdsFrom(T, rest, visible)
       ELSE getVisibleNodeIdsFrom(
              T,
              IF T.nodes[nodeId].isCollapsed THEN rest
              ELSE rest \o T.nodes[nodeId].childrenIds,
              visible \cup {nodeId})

getVisibleNodeIds(T) == getVisibleNodeIdsFrom(T, <<T.rootId>>, {})

\* The ids the graph shows.
MindmapView(T, visibleNodeIds) ==
  { id \in getVisibleNodeIds(T) :
      visibleNodeIds.filtered => id \in visibleNodeIds.ids }

(***************************************************************************)
(* Structural predicates on a tree value (spec section 3, invariants 1-5). *)
(***************************************************************************)
ActiveNodeExists(T) == T.activeNodeId \in Keys(T)

ChildLinksAgree(T) ==
  \A n \in Keys(T) :
    \A i \in 1 .. Len(T.nodes[n].childrenIds) :
      LET cid == T.nodes[n].childrenIds[i]
      IN cid \in Keys(T) /\ T.nodes[cid].parentId = n

ParentLinksAgree(T) ==
  \A n \in Keys(T) :
    T.nodes[n].parentId # NULL =>
      /\ T.nodes[n].parentId \in Keys(T)
      /\ includes(T.nodes[T.nodes[n].parentId].childrenIds, n)

\* Ids reachable from the ids of `frontier` by following childrenIds.
RECURSIVE ReachableFrom(_, _, _)
ReachableFrom(T, frontier, seen) ==
  IF frontier \subseteq seen THEN seen
  ELSE
    LET now == frontier \ seen
        next == UNION { { T.nodes[n].childrenIds[i] :
                            i \in 1 .. Len(T.nodes[n].childrenIds) } :
                        n \in now \cap Keys(T) }
    IN ReachableFrom(T, next, seen \cup now)

ChildrenOf(T, n) ==
  IF n \in Keys(T)
  THEN { T.nodes[n].childrenIds[i] : i \in 1 .. Len(T.nodes[n].childrenIds) }
  ELSE {}

\* Proper descendants of n along childrenIds.
Descendants(T, n) == ReachableFrom(T, ChildrenOf(T, n), {})

Acyclic(T) == \A n \in ReachableFrom(T, {T.rootId}, {}) : n \notin Descendants(T, n)

Spanning(T) == Keys(T) \subseteq ReachableFrom(T, {T.rootId}, {})

RootIsOnlyParentless(T) ==
  /\ T.rootId \in Keys(T)
  /\ T.nodes[T.rootId].parentId = NULL
  /\ \A n \in Keys(T) : T.nodes[n].parentId = NULL => n = T.rootId

NoRepeatedChild(T) ==
  \A n \in Keys(T) :
    \A i, j \in 1 .. Len(T.nodes[n].childrenIds) :
      T.nodes[n].childrenIds[i] = T.nodes[n].childrenIds[j] => i = j

WellFormed(T) ==
  /\ RootIsOnlyParentless(T)
  /\ ChildLinksAgree(T)
  /\ ParentLinksAgree(T)
  /\ Acyclic(T)
  /\ Spanning(T)
  /\ NoRepeatedChild(T)
  /\ ActiveNodeExists(T)

(***************************************************************************)
(* Claims.                                                                 *)
(***************************************************************************)

\* C1: in every tree reachable from createEmptyTree() by the operations
\* (restore with any earlier-captured snapshot), activeNodeId is a key of
\* nodes.
C1_ActiveNodeIsKey == ActiveNodeExists(tree)

\* C2: in every reachable tree the parent and child links agree in both
\* directions.
C2_LinksAgree == ChildLinksAgree(tree) /\ ParentLinksAgree(tree)

\* C3: in every reachable tree the graph reachable from rootId via
\* childrenIds is acyclic and contains every key of nodes (no orphans).
C3_AcyclicSpanning == Acyclic(tree) /\ Spanning(tree)

\* C4: in every reachable tree nodes[rootId] exists with parentId = null and no
\* other node has parentId = null.
C4_RootIsOnlyParentless == RootIsOnlyParentless(tree)

\* C4 witness: a tree with several nodes in which a restore has re-entered
\* snapshot copies and the root is still the only parentless node.
C4_Witness ==
  /\ Cardinality(Keys(tree)) >= 3
  /\ lastDeleted # NoSnapshot
  /\ lastDeleted.rootId \in Keys(tree)
  /\ tree.activeNodeId = lastDeleted.rootId
  /\ tree.nodes[tree.rootId].updatedAt > tree.nodes[tree.rootId].createdAt
  /\ RootIsOnlyParentless(tree)

\* A time at which a further call could run: strictly later than every
\* timestamp stored so far, so a refreshed updatedAt is visible.
Later == clock + 1

\* The sequence without the entries equal to x, order kept.
Without(seq, x) == SelectSeq(seq, LAMBDA y : y # x)

\* A node with its updatedAt masked.
ModuloUpdatedAt(n) == [ n EXCEPT !.updatedAt = 0 ]

\* C5: deleteSubtree never removes the root: deleteSubtree(T, T.rootId)
\* returns T unchanged, and after deleteSubtree with any other id the root
\* node is still in nodes.
C5_RootNeverDeleted ==
  /\ deleteSubtree(tree, tree.rootId, Later) = tree
  /\ \A id \in ArgIds : tree.rootId \in Keys(deleteSubtree(tree, id, Later))

\* C5 witness: a tree in which deleting some non-root id removes nodes
\* while the root has children.
C5_Witness ==
  /\ tree.nodes[tree.rootId].childrenIds # <<>>
  /\ \E id \in Keys(tree) \ {tree.rootId} :
       /\ Cardinality(Keys(tree) \ Keys(deleteSubtree(tree, id, Later))) >= 2
       /\ tree.rootId \in Keys(deleteSubtree(tree, id, Later))

C7_DeleteRemovesExactlySubtree ==
  WellFormed(tree) =>
    \A id \in Keys(tree) \ {tree.rootId} :
      LET D == deleteSubtree(tree, id, Later)
          removed == {id} \cup Descendants(tree, id)
          p == tree.nodes[id].parentId
      IN /\ D.rootId = tree.rootId
         /\ Keys(D) = Keys(tree) \ removed
         /\ D.nodes[p] = [ tree.nodes[p] EXCEPT
                             !.childrenIds = Without(tree.nodes[p].childrenIds, id),
                             !.updatedAt = Later ]
         /\ \A k \in Keys(D) \ {p} : D.nodes[k] = tree.nodes[k]
         /\ \A k \in Keys(D) :
              /\ ChildrenOf(D, k) \cap removed = {}
              /\ D.nodes[k].parentId \notin removed

\* C7 witness: a well-formed tree where the deleted node has a child and
\* is not the only child of its parent.
C7_Witness ==
  /\ WellFormed(tree)
  /\ \E id \in Keys(tree) \ {tree.rootId} :
       /\ tree.nodes[id].childrenIds # <<>>
       /\ Len(tree.nodes[tree.nodes[id].parentId].childrenIds) >= 2
       /\ Cardinality(Keys(deleteSubtree(tree, id, Later))) = Cardinality(Keys(tree)) - 2

\* C8: deleteSubtree applies the active-node repair rule: if the previously
\* active node is in the deleted set, the new activeNodeId is the deleted
\* node's former parent (the root if it has no parent); otherwise
\* activeNodeId is unchanged.
C8_ActiveRepairRule ==
  \A id \in Keys(tree) \ {tree.rootId} :
    LET D == deleteSubtree(tree, id, Later)
        deleted == {id} \cup Descendants(tree, id)
        p == tree.nodes[id].parentId
    IN IF tree.activeNodeId \in deleted
       THEN D.activeNodeId = (IF p # NULL THEN p ELSE tree.rootId)
       ELSE D.activeNodeId = tree.activeNodeId

\* C8 witness: the active node is a proper descendant of a node whose
\* parent is not the root, so the repaired active node is neither the root
\* nor the active node's own parent.
C8_Witness ==
  \E id \in Keys(tree) \ {tree.rootId} :
    /\ tree.activeNodeId \in Descendants(tree, id)
    /\ tree.nodes[id].parentId # tree.rootId
    /\ deleteSubtree(tree, id, Later).activeNodeId = tree.nodes[id].parentId
    /\ deleteSubtree(tree, id, Later).activeNodeId \in Keys(deleteSubtree(tree, id, Later))

\* C9: delete/restore round trip: for a well-formed tree T and an existing
\* non-root id, restoreDeletedSubtree(deleteSubtree(T, id),
\* captureDeletedSubtree(T, id)) has the same node ids as T, every node has
\* the same fields as in T except updatedAt, and activeNodeId is id.
C9_DeleteRestoreRoundTrip ==
  WellFormed(tree) =>
    \A id \in Keys(tree) \ {tree.rootId} :
      LET S == captureDeletedSubtree(tree, id)
          D == deleteSubtree(tree, id, clock)
          R == restoreDeletedSubtree(D, S, Later)
      IN /\ R.rootId = tree.rootId
         /\ R.activeNodeId = id
         /\ Keys(R) = Keys(tree)
         /\ \A k \in Keys(tree) :
              ModuloUpdatedAt(R.nodes[k]) = ModuloUpdatedAt(tree.nodes[k])

\* C9 witness: a well-formed tree where the node deleted and restored has a
\* child, is not the last child of its parent and is not the active node.
C9_Witness ==
  /\ WellFormed(tree)
  /\ \E id \in Keys(tree) \ {tree.rootId} :
       LET sibs == tree.nodes[tree.nodes[id].parentId].childrenIds
           R == restoreDeletedSubtree(deleteSubtree(tree, id, clock),
                                      captureDeletedSubtree(tree, id), Later)
       IN /\ tree.nodes[id].childrenIds # <<>>
          /\ sibs[Len(sibs)] # id
          /\ tree.activeNodeId # id
          /\ R # tree
          /\ R.nodes[tree.nodes[id].parentId].childrenIds = sibs

\* C10: with T1 = addChild(T, parentId) and c the new child's id,
\* deleteSubtree(T1, c) equals T in every field except activeNodeId, which
\* becomes parentId, and the parent's updatedAt.
C10_AddThenDelete ==
  \A parentId \in Keys(tree) :
    LET T1 == addChild(tree, parentId, nextId, clock)
        D == deleteSubtree(T1, nextId, Later)
    IN /\ D.rootId = tree.rootId
       /\ D.activeNodeId = parentId
       /\ Keys(D) = Keys(tree)
       /\ \A k \in Keys(tree) \ {parentId} : D.nodes[k] = tree.nodes[k]
       /\ ModuloUpdatedAt(D.nodes[parentId]) = ModuloUpdatedAt(tree.nodes[parentId])

\* C10 witness: the parent already has children and is not the active
\* node, so the result differs from T in activeNodeId.
C10_Witness ==
  \E parentId \in Keys(tree) :
    LET D == deleteSubtree(addChild(tree, parentId, nextId, clock), nextId, Later)
    IN /\ tree.nodes[parentId].childrenIds # <<>>
       /\ tree.activeNodeId # parentId
       /\ D.activeNodeId = parentId
       /\ D.nodes[parentId].childrenIds = tree.nodes[parentId].childrenIds

\* C11: calling toggleCollapse twice on the same existing node returns a
\* tree equal to the original in every field except that node's updatedAt;
\* isCollapsed is back to its original value.
C11_ToggleTwice ==
  \A id \in Keys(tree) :
    LET T1 == toggleCollapse(tree, id, clock)
        T2 == toggleCollapse(T1, id, Later)
    IN /\ T1.nodes[id].isCollapsed # tree.nodes[id].isCollapsed
       /\ T2.nodes[id].isCollapsed = tree.nodes[id].isCollapsed
       /\ T2 = [ tree EXCEPT !.nodes[id].updatedAt = Later ]

\* C11 witness: a collapsed node with a child in a tree of several nodes,
\* toggled twice.
C11_Witness ==
  \E id \in Keys(tree) :
    /\ tree.nodes[id].isCollapsed
    /\ tree.nodes[id].childrenIds # <<>>
    /\ tree.activeNodeId # id
    /\ ~toggleCollapse(tree, id, clock).nodes[id].isCollapsed
    /\ toggleCollapse(toggleCollapse(tree, id, clock), id, Later).nodes[id].isCollapsed

\* C12: restoreDeletedSubtree returns the input tree unchanged whenever
\* snapshot.parentId is null or is not a key of the current tree's nodes.
C12_RestoreNoOpWithoutParent ==
  /\ restoreDeletedSubtree(tree, [ lastDeleted EXCEPT !.parentId = NULL ], Later) = tree
  /\ lastDeleted.parentId \notin Keys(tree) =>
       restoreDeletedSubtree(tree, lastDeleted, Later) = tree

\* C12 witness: a snapshot is held whose parent has since been deleted from
\* the tree, and the snapshot root is not the active node.
C12_Witness ==
  /\ lastDeleted # NoSnapshot
  /\ lastDeleted.parentId # NULL
  /\ lastDeleted.parentId \notin Keys(tree)
  /\ lastDeleted.rootId \notin Keys(tree)
  /\ Cardinality(DOMAIN lastDeleted.nodes) >= 2
  /\ restoreDeletedSubtree(tree, lastDeleted, Later) = tree

\* C13: one-step undo in the App: after a node delete followed by any
\* number of addChild, toggleCollapse, setActiveNode, appendMessage and
\* renameNode actions, pressing 'Undo delete' yields a tree that again
\* contains every node of the deleted subtree with the title, messages and
\* childrenIds it had when deleted, with the subtree root again a child of
\* its former parent, and lastDeleted is cleared.
C13_OneStepUndo ==
  [][ (lastDeleted # NoSnapshot /\ lastDeleted' = NoSnapshot) =>
        /\ \A k \in DOMAIN lastDeleted.nodes :
             /\ k \in Keys(tree')
             /\ tree'.nodes[k].title = lastDeleted.nodes[k].title
             /\ tree'.nodes[k].messages = lastDeleted.nodes[k].messages
             /\ tree'.nodes[k].childrenIds = lastDeleted.nodes[k].childrenIds
             /\ ChildrenOf(tree', k) \subseteq Keys(tree')
        /\ lastDeleted.rootId \in Keys(tree')
        /\ lastDeleted.parentId \in Keys(tree')
        /\ tree'.nodes[lastDeleted.rootId].parentId = lastDeleted.parentId
        /\ includes(tree'.nodes[lastDeleted.parentId].childrenIds, lastDeleted.rootId)
    ]_vars

\* C13 witness: the snapshot slot is empty although a delete has taken
\* effect (an id made earlier is still missing), so Undo has run since the
\* last delete; the restored root is active and has a child, and an edit
\* was made.
C13_Witness ==
  /\ lastDeleted = NoSnapshot
  /\ \E id \in 1 .. (nextId - 1) : id \notin Keys(tree)
  /\ tree.activeNodeId # tree.rootId
  /\ tree.activeNodeId \in Keys(tree)
  /\ tree.nodes[tree.activeNodeId].childrenIds # <<>>
  /\ edits = 1
  /\ WellFormed(tree)

\* A content longer than the title slice.
LongContent == [ i \in 1 .. (TitleSliceLen + 1) |-> "x" ]

\* Contents and raw titles the operations are probed with.
ProbeContents == Contents \cup { DefaultTitle, LongContent, <<>> }

ProbeTitles ==
  RenameInputs \cup { DefaultTitle, <<>>, <<" ", " ">>, <<"a", " ", "b", " ">> }

\* The first n characters of s.
FirstChars(s, n) == [ i \in 1 .. (IF Len(s) < n THEN Len(s) ELSE n) |-> s[i] ]

\* s between its first and its last non-whitespace character.
Stripped(s) ==
  LET idx == { i \in 1 .. Len(s) : s[i] \notin Whitespace }
  IN IF idx = {} THEN <<>>
     ELSE SubSeq(s, CHOOSE i \in idx : \A j \in idx : i <= j,
                    CHOOSE i \in idx : \A j \in idx : i >= j)

\* The title a node is created with.
CreatedTitle(T, id) == IF id = T.rootId THEN RootTitle ELSE DefaultTitle

\* C14: addChild with an existing parentId adds exactly one node with a
\* fresh id, parentId set, no children, no messages, title 'New thread' and
\* isCollapsed false; the parent's childrenIds becomes its previous sequence
\* followed by the new id; activeNodeId becomes the new id; every other
\* node is unchanged.
C14_AddChildEffect ==
  \A parentId \in Keys(tree) :
    LET A == addChild(tree, parentId, nextId, Later)
    IN /\ nextId \notin Keys(tree)
       /\ Keys(A) = Keys(tree) \cup {nextId}
       /\ A.rootId = tree.rootId
       /\ A.activeNodeId = nextId
       /\ A.nodes[nextId].id = nextId
       /\ A.nodes[nextId].parentId = parentId
       /\ A.nodes[nextId].childrenIds = <<>>
       /\ A.nodes[nextId].messages = <<>>
       /\ A.nodes[nextId].title = DefaultTitle
       /\ A.nodes[nextId].isCollapsed = FALSE
       /\ A.nodes[parentId] =
            [ tree.nodes[parentId] EXCEPT
                !.childrenIds = tree.nodes[parentId].childrenIds \o <<nextId>>,
                !.updatedAt = Later ]
       /\ \A k \in Keys(tree) \ {parentId} : A.nodes[k] = tree.nodes[k]

\* C14 witness: addChild has just added the active node as the last of at
\* least two children of its parent.
C14_Witness ==
  /\ tree.activeNodeId = nextId - 1
  /\ tree.activeNodeId \in Keys(tree)
  /\ tree.nodes[tree.activeNodeId].title = DefaultTitle
  /\ tree.nodes[tree.activeNodeId].childrenIds = <<>>
  /\ LET p == tree.nodes[tree.activeNodeId].parentId
     IN /\ p \in Keys(tree)
        /\ Len(tree.nodes[p].childrenIds) >= 2
        /\ tree.nodes[p].childrenIds[Len(tree.nodes[p].childrenIds)] = tree.activeNodeId

\* C15: appendMessage on an existing node appends exactly one message with
\* the given role and content at the end of that node's messages; if the
\* node's title is still the default title it was created with and role is
\* 'user', the title becomes the first 30 characters of content; with role
\* 'assistant' or 'system' the title is unchanged.
C15_AppendMessageEffect ==
  \A id \in Keys(tree), role \in Roles, content \in ProbeContents :
    LET A == appendMessage(tree, id, role, content, nextMsgId, Later)
        old == tree.nodes[id].messages
        new == A.nodes[id].messages
    IN /\ Len(new) = Len(old) + 1
       /\ SubSeq(new, 1, Len(old)) = old
       /\ new[Len(new)].role = role
       /\ new[Len(new)].content = content
       /\ (role = "user" /\ tree.nodes[id].title = CreatedTitle(tree, id)) =>
            A.nodes[id].title = FirstChars(content, TitleSliceLen)
       /\ role # "user" => A.nodes[id].title = tree.nodes[id].title

\* C16: title inference is one-time: once a user-role appendMessage has
\* derived a node's title, no later appendMessage on that node changes its
\* title; and a title set by renameNode is never changed by appendMessage.
C16_TitleInferenceOnce ==
  \A id \in Keys(tree), role \in Roles, content \in ProbeContents :
    /\ \A first \in ProbeContents :
         tree.nodes[id].title = DefaultTitle =>
           LET T1 == appendMessage(tree, id, "user", first, nextMsgId, clock)
           IN appendMessage(T1, id, role, content, nextMsgId + 1, Later).nodes[id].title
                = T1.nodes[id].title
    /\ \A title \in ProbeTitles :
         LET T1 == renameNode(tree, id, title, clock)
         IN appendMessage(T1, id, role, content, nextMsgId, Later).nodes[id].title
              = T1.nodes[id].title

\* C17: renameNode on an existing node stores the title with leading and
\* trailing whitespace removed, or 'Untitled' when the trimmed title is
\* empty; no renameNode call leaves an empty or whitespace-only title.
C17_RenameTrims ==
  \A id \in Keys(tree), title \in ProbeTitles :
    LET stored == renameNode(tree, id, title, Later).nodes[id].title
    IN /\ stored = (IF Stripped(title) = <<>> THEN UntitledTitle ELSE Stripped(title))
       /\ stored # <<>>
       /\ \E i \in 1 .. Len(stored) : stored[i] \notin Whitespace

\* C17 witness: a whitespace-only rename has left a non-root node titled
\* 'Untitled'.
C17_Witness ==
  \E id \in Keys(tree) \ {tree.rootId} :
    /\ tree.nodes[id].title = UntitledTitle
    /\ tree.nodes[id].updatedAt >= tree.nodes[id].createdAt
    /\ renameNode(tree, id, <<" ", "a", " ">>, Later).nodes[id].title = <<"a">>

\* seq1 is a prefix of seq2.
IsPrefix(seq1, seq2) ==
  Len(seq1) <= Len(seq2) /\ SubSeq(seq2, 1, Len(seq1)) = seq1

\* C18: messages are append-only: for every node that exists in two
\* successive trees the earlier message list is a prefix of the later one;
\* a message disappears only when its whole node is removed.
C18_MessagesAppendOnly ==
  [][ \A k \in Keys(tree) \cap Keys(tree') :
        IsPrefix(tree.nodes[k].messages, tree'.nodes[k].messages) ]_vars

\* C20 (as stated): setActiveNode is the sole way to change focus: addChild,
\* toggleCollapse, appendMessage, renameNode, deleteSubtree and
\* restoreDeletedSubtree leave activeNodeId unchanged.
C20_OnlySetActiveChangesFocus ==
  \A id \in ArgIds :
    /\ addChild(tree, id, nextId, Later).activeNodeId = tree.activeNodeId
    /\ toggleCollapse(tree, id, Later).activeNodeId = tree.activeNodeId
    /\ \A role \in Roles, content \in Contents :
         appendMessage(tree, id, role, content, nextMsgId, Later).activeNodeId
           = tree.activeNodeId
    /\ \A title \in RenameInputs :
         renameNode(tree, id, title, Later).activeNodeId = tree.activeNodeId
    /\ deleteSubtree(tree, id, Later).activeNodeId = tree.activeNodeId
    /\ restoreDeletedSubtree(tree, lastDeleted, Later).activeNodeId = tree.activeNodeId

\* C20 (amended): toggleCollapse, appendMessage and renameNode leave
\* activeNodeId unchanged; setActiveNode sets it to an existing id; addChild
\* with an existing parent sets it to the new child; deleteSubtree changes
\* it only when the active node is removed, to the deleted node's parent;
\* restoreDeletedSubtree changes it only to the snapshot root.
C20_FocusChanges ==
  \A id \in ArgIds :
    /\ toggleCollapse(tree, id, Later).activeNodeId = tree.activeNodeId
    /\ \A role \in Roles, content \in Contents :
         appendMessage(tree, id, role, content, nextMsgId, Later).activeNodeId
           = tree.activeNodeId
    /\ \A title \in RenameInputs :
         renameNode(tree, id, title, Later).activeNodeId = tree.activeNodeId
    /\ setActiveNode(tree, id).activeNodeId
         = (IF id \in Keys(tree) THEN id ELSE tree.activeNodeId)
    /\ addChild(tree, id, nextId, Later).activeNodeId
         = (IF id \in Keys(tree) THEN nextId ELSE tree.activeNodeId)
    /\ LET D == deleteSubtree(tree, id, Later)
       IN D.activeNodeId # tree.activeNodeId =>
            /\ tree.activeNodeId \in Keys(tree) \ Keys(D)
            /\ D.activeNodeId = tree.nodes[id].parentId
    /\ LET R == restoreDeletedSubtree(tree, lastDeleted, Later)
       IN R.activeNodeId # tree.activeNodeId => R.activeNodeId = lastDeleted.rootId

\* C20 witness: addChild has just moved the focus to the new child, a held
\* snapshot would move it to the snapshot root, deleting the active node
\* would move it to the parent, and toggling another node leaves it.
C20_Witness ==
  /\ tree.activeNodeId = nextId - 1
  /\ tree.activeNodeId \in Keys(tree) \ {tree.rootId}
  /\ lastDeleted # NoSnapshot
  /\ lastDeleted.rootId # tree.activeNodeId
  /\ restoreDeletedSubtree(tree, lastDeleted, Later).activeNodeId = lastDeleted.rootId
  /\ deleteSubtree(tree, tree.activeNodeId, Later).activeNodeId
       = tree.nodes[tree.activeNodeId].parentId
  /\ toggleCollapse(tree, tree.rootId, Later).activeNodeId = tree.activeNodeId

\* C21: createEmptyTree returns a tree whose nodes map has exactly one entry,
\* the root: parentId null, no children, no messages, isCollapsed false,
\* title 'Root'; and activeNodeId = rootId.
C21_CreateEmptyTree ==
  LET E == createEmptyTree(nextId, clock)
  IN /\ Keys(E) = {E.rootId}
     /\ E.rootId = nextId
     /\ E.activeNodeId = E.rootId
     /\ E.nodes[E.rootId].id = E.rootId
     /\ E.nodes[E.rootId].parentId = NULL
     /\ E.nodes[E.rootId].childrenIds = <<>>
     /\ E.nodes[E.rootId].messages = <<>>
     /\ E.nodes[E.rootId].isCollapsed = FALSE
     /\ E.nodes[E.rootId].title = RootTitle
     /\ E.nodes[E.rootId].createdAt = clock
     /\ E.nodes[E.rootId].updatedAt = clock

\* C21 witness: a tree that has grown and been edited is about to be
\* replaced by a fresh one made at a later time with an unused id.
C21_Witness ==
  /\ Cardinality(Keys(tree)) >= 3
  /\ clock >= 1
  /\ nextId \notin Keys(tree)
  /\ createEmptyTree(nextId, clock) # tree
  /\ Keys(createEmptyTree(nextId, clock)) = {nextId}

\* Positions of x in seq.
PositionsOf(seq, x) == { i \in 1 .. Len(seq) : seq[i] = x }

\* Values of parentIndex a snapshot is probed with: -1, every position of a
\* children list and positions beyond its end.
ProbeIndexes == -1 .. MaxNodes

\* C25: when restoreDeletedSubtree re-attaches (the parent exists and does
\* not already list the snapshot root), the root id is inserted at
\* snapshot.parentIndex if 0 <= parentIndex <= the current length of the
\* parent's childrenIds and otherwise appended at the end; the relative
\* order of the parent's other children is unchanged, the id occurs exactly
\* once, and activeNodeId becomes the snapshot root; if the parent already
\* lists the id, its childrenIds is unchanged.
C25_RestoreInsertIndex ==
  \A idx \in ProbeIndexes \cup {lastDeleted.parentIndex} :
    LET S == [ lastDeleted EXCEPT !.parentIndex = idx ]
        p == S.parentId
    IN (S.rootId # NULL /\ p \in Keys(tree)) =>
         LET old == tree.nodes[p].childrenIds
             R == restoreDeletedSubtree(tree, S, Later)
             new == R.nodes[p].childrenIds
         IN /\ R.activeNodeId = S.rootId
            /\ IF includes(old, S.rootId)
               THEN new = old
               ELSE /\ Without(new, S.rootId) = old
                    /\ Cardinality(PositionsOf(new, S.rootId)) = 1
                    /\ new[(IF idx >= 0 /\ idx <= Len(old) THEN idx ELSE Len(old)) + 1]
                         = S.rootId

\* C25 witness: the held snapshot's root is missing from its parent, the
\* parent has lost children since the capture so that parentIndex lies
\* beyond the end, and restoring appends the root after a remaining child.
C25_Witness ==
  /\ lastDeleted # NoSnapshot
  /\ lastDeleted.parentId \in Keys(tree)
  /\ LET old == tree.nodes[lastDeleted.parentId].childrenIds
         R == restoreDeletedSubtree(tree, lastDeleted, Later)
     IN /\ ~includes(old, lastDeleted.rootId)
        /\ old # <<>>
        /\ lastDeleted.parentIndex > Len(old)
        /\ R.nodes[lastDeleted.parentId].childrenIds = old \o <<lastDeleted.rootId>>

\* C25 second case: the snapshot root goes back in front of a sibling.
C25_WitnessMiddle ==
  /\ lastDeleted # NoSnapshot
  /\ lastDeleted.parentId \in Keys(tree)
  /\ LET old == tree.nodes[lastDeleted.parentId].childrenIds
     IN /\ ~includes(old, lastDeleted.rootId)
        /\ lastDeleted.parentIndex >= 0
        /\ lastDeleted.parentIndex < Len(old)

\* C28: toggleCollapse on an existing node changes only that node's
\* isCollapsed (flipped) and updatedAt: the isCollapsed of every descendant
\* and every other node, all titles, messages, parentId and childrenIds, and
\* the tree's activeNodeId and rootId are unchanged.
C28_ToggleFrame ==
  \A id \in Keys(tree) :
    LET R == toggleCollapse(tree, id, Later)
    IN /\ R.rootId = tree.rootId
       /\ R.activeNodeId = tree.activeNodeId
       /\ Keys(R) = Keys(tree)
       /\ R.nodes[id].isCollapsed = ~tree.nodes[id].isCollapsed
       /\ R.nodes[id].updatedAt = Later
       /\ R.nodes[id].id = tree.nodes[id].id
       /\ R.nodes[id].title = tree.nodes[id].title
       /\ R.nodes[id].messages = tree.nodes[id].messages
       /\ R.nodes[id].parentId = tree.nodes[id].parentId
       /\ R.nodes[id].childrenIds = tree.nodes[id].childrenIds
       /\ R.nodes[id].createdAt = tree.nodes[id].createdAt
       /\ \A k \in Keys(tree) \ {id} : R.nodes[k] = tree.nodes[k]

\* C28 witness: an expanded node with a collapsed child and a grandchild is
\* toggled; the child stays collapsed and the grandchild expanded.
C28_Witness ==
  \E id \in Keys(tree) :
    \E c \in ChildrenOf(tree, id) \cap Keys(tree) :
      LET R == toggleCollapse(tree, id, Later)
      IN /\ ~tree.nodes[id].isCollapsed
         /\ tree.nodes[c].isCollapsed
         /\ tree.nodes[c].childrenIds # <<>>
         /\ R.nodes[id].isCollapsed
         /\ R.nodes[c].isCollapsed
         /\ \A g \in ChildrenOf(tree, c) \cap Keys(tree) : ~R.nodes[g].isCollapsed

\* C29: setActiveNode with an existing id returns a tree with activeNodeId =
\* id whose rootId and nodes map are unchanged.
C29_SetActiveFrame ==
  \A id \in Keys(tree) :
    LET R == setActiveNode(tree, id)
    IN /\ R.activeNodeId = id
       /\ R.rootId = tree.rootId
       /\ R.nodes = tree.nodes

\* C29 witness: the focus has been moved to an existing node that is
\* neither the root nor the node made last, and nothing else records it.
C29_Witness ==
  /\ tree.activeNodeId \in Keys(tree) \ {tree.rootId}
  /\ tree.activeNodeId < nextId - 1
  /\ lastDeleted = NoSnapshot
  /\ edits = 0
  /\ clock >= 1
  /\ \A k \in Keys(tree) : tree.nodes[k].updatedAt = 0
  /\ setActiveNode(tree, tree.rootId) # tree

\* From T to R, node n has updatedAt = t and every other node present in
\* both trees keeps its updatedAt.
OnlyRefreshes(T, R, n, t) ==
  /\ n \in Keys(R) => R.nodes[n].updatedAt = t
  /\ \A k \in (Keys(T) \cap Keys(R)) \ {n} : R.nodes[k].updatedAt = T.nodes[k].updatedAt

\* The part of C30 about the operations of the tree core.
C30_CoreRefresh ==
  \A id \in Keys(tree) :
    /\ OnlyRefreshes(tree, toggleCollapse(tree, id, Later), id, Later)
    /\ \A role \in Roles, content \in Contents :
         OnlyRefreshes(tree, appendMessage(tree, id, role, content, nextMsgId, Later),
                       id, Later)
    /\ \A title \in RenameInputs :
         OnlyRefreshes(tree, renameNode(tree, id, title, Later), id, Later)
    /\ OnlyRefreshes(tree, addChild(tree, id, nextId, Later), id, Later)
    /\ id # tree.rootId =>
         OnlyRefreshes(tree, deleteSubtree(tree, id, Later),
                       tree.nodes[id].parentId, Later)

\* The part of C30 about restoreDeletedSubtree.
C30_RestoreRefresh ==
  (lastDeleted # NoSnapshot /\ lastDeleted.parentId \in Keys(tree)) =>
    OnlyRefreshes(tree, restoreDeletedSubtree(tree, lastDeleted, Later),
                  lastDeleted.parentId, Later)

\* C30: whenever an operation changes a node's title, messages, isCollapsed
\* or childrenIds (the target node for toggleCollapse, appendMessage and
\* renameNode; the parent for addChild, deleteSubtree and
\* restoreDeletedSubtree), it sets that node's updatedAt to the time of the
\* call, and it leaves the updatedAt of every other node untouched.
C30_UpdatedAtRefresh == C30_CoreRefresh /\ C30_RestoreRefresh

\* No id occurs twice in seq.
NoRepeats(seq) == \A i, j \in 1 .. Len(seq) : seq[i] = seq[j] => i = j

\* The set built by the loop is the one the tree core's collection yields.
LoopAgreesWithCollect ==
  (del.pc = "loop" /\ del.stack = <<>>) =>
    del.toDelete = collectSubtree(tree, <<del.nodeId>>, {})

\* C27: deleteSubtree terminates for every tree value, including malformed
\* ones whose childrenIds contain cycles, repeated ids or ids missing from
\* nodes (a started call reaches its return, within one iteration per
\* pushed id), and its traversal adds each id to the deletion set at most
\* once.
C27_DeleteTerminates ==
  /\ (del.pc = "loop") ~> (del.pc = "done")
  /\ [](del.steps <= 1 + MaxLoopNodes * MaxLoopChildren)
  /\ [](NoRepeats(del.adds))

\* C27 witness: a call has returned on a tree with a cycle through the
\* deleted node, a repeated child and a missing child, after popping an id
\* that was already collected.
C27_Witness ==
  /\ del.pc = "done"
  /\ Len(del.adds) >= 3
  /\ del.steps > Len(del.adds)
  /\ del.nodeId \in del.toDelete
  /\ \E k \in del.toDelete : k \notin 1 .. MaxLoopNodes
  /\ \E k \in del.toDelete \cap (1 .. MaxLoopNodes) : k # del.nodeId

\* The calls that settle in this step.
Settling == { r \in inflight : \A q \in inflight' : q.id # r.id }

\* This step appends an assistant message to a node of the tree.
AssistantAppended ==
  \E k \in Keys(tree) \cap Keys(tree') :
    /\ Len(tree'.nodes[k].messages) > Len(tree.nodes[k].messages)
    /\ tree'.nodes[k].messages[Len(tree'.nodes[k].messages)].role = "assistant"

C23_SavedBeforeLeaving ==
  [][ (activeTreeId' # activeTreeId /\ activeTreeId \in DOMAIN storage') =>
        storage'[activeTreeId] = tree ]_vars

\* While the App stays in a workspace, the pending timeout writes the
\* current tree under the workspace's id.
C23_TimerWritesCurrentTree ==
  [][ (saveTimer /\ storage' # storage /\ activeTreeId' = activeTreeId
         /\ tree' = tree /\ treeList' = treeList) =>
        storage' = saveTree(storage, activeTreeId, tree) ]_vars

\* The files that can be picked in the current state.
PickableFiles == { f \in ImportFiles : f = "export" => exported # NoFile }

\* The parsed JSON has rootId, activeNodeId and nodes, and nodes has an
\* entry for rootId.
ValidImport(p) ==
  /\ p.parses
  /\ p.rootId # Undefined
  /\ p.activeNodeId # Undefined
  /\ p.hasNodes
  /\ p.rootId \in DOMAIN p.nodes

\* C24: import replaces the current tree only when the parsed JSON has
\* rootId, activeNodeId and nodes and nodes[rootId] exists; in every other
\* case (including unparsable text) the current tree is left unchanged and
\* the failure is reported to the user.
C24_ImportValidates ==
  \A file \in PickableFiles :
    LET p == parseFile(file)
    IN /\ importError(p) = NoAlert => ValidImport(p)
       /\ ~ValidImport(p) =>
            /\ importJson(tree, p) = tree
            /\ importError(p) # NoAlert

\* The statement of C24 for the files whose rootId is not the name of a
\* property inherited from Object.prototype.
C24_ImportValidatesOwnIds ==
  \A file \in PickableFiles :
    LET p == parseFile(file)
    IN p.rootId \notin ObjectPrototypeKeys =>
         /\ importError(p) = NoAlert => ValidImport(p)
         /\ ~ValidImport(p) =>
              /\ importJson(tree, p) = tree
              /\ importError(p) # NoAlert

\* The trees that can replace the current one in the next step: a fresh
\* tree (Reset), the saved tree of another workspace (switch), and the tree
\* of an exported file (import).
Replacements ==
  {createEmptyTree(nextId, clock)}
    \cup { storage[id] : id \in (ListIds(treeList) \cap DOMAIN storage) \ {activeTreeId} }
    \cup { importJson(tree, parseFile(f)) : f \in PickableFiles \cap {"export"} }

\* C26: when the tree has been replaced between a delete and the undo (by
\* Reset, by switching workspace, or by importing a JSON file, which may be
\* an earlier export of the same tree), pressing 'Undo delete' with the
\* snapshot still held in lastDeleted leaves the replacement tree unchanged.
C26_UndoAfterReplace ==
  lastDeleted # NoSnapshot =>
    \A R \in Replacements : restoreDeletedSubtree(R, lastDeleted, Later) = R

\* The statement of C26 for Reset alone.
C26_UndoAfterReset ==
  lastDeleted # NoSnapshot =>
    restoreDeletedSubtree(createEmptyTree(nextId, clock), lastDeleted, Later)
      = createEmptyTree(nextId, clock)

\* C31: under the App's undo protocol (snapshot captured in the update that
\* deletes, one slot overwritten by each successful delete and cleared by
\* Undo, the tree never replaced) every reachable tree has parent and child
\* links that agree in both directions and no node unreachable from the
\* root, and whenever 'Undo delete' is offered the snapshot's parent is in
\* the current tree, so the restore changes the tree.
C31_UndoProtocolKeepsTree ==
  /\ ChildLinksAgree(tree)
  /\ ParentLinksAgree(tree)
  /\ Spanning(tree)
  /\ lastDeleted # NoSnapshot =>
       /\ lastDeleted.parentId # NULL
       /\ lastDeleted.parentId \in Keys(tree)
       /\ restoreDeletedSubtree(tree, lastDeleted, Later) # tree

\* C31 witness: a snapshot of a two-node subtree cut from below a non-root
\* parent is held, and since the delete the focus has moved to the root and
\* an edit was made.
C31_Witness ==
  /\ lastDeleted # NoSnapshot
  /\ Cardinality(DOMAIN lastDeleted.nodes) >= 2
  /\ lastDeleted.parentId # tree.rootId
  /\ tree.activeNodeId = tree.rootId
  /\ edits = 1

\* The calls started in this step.
Starting == { r \in inflight' : \A q \in inflight : q.id # r.id }

\* A call that completes successfully in this step: it settles, its signal
\* is not aborted and no error is set.
Completing == { r \in Settling : ~r.aborted /\ error' = error }

\* While a call that can still complete is in flight the error slot does
\* not hold a request failure, so a failing call always changes the slot.
FailureChangesError ==
  (\E r \in inflight : ~r.aborted) => error # "Unknown error."

\* The step appends exactly one assistant message to node k and changes
\* nothing else in the tree, or leaves the tree alone when k is not in it.
OneAssistantMessageTo(k) ==
  IF k \in Keys(tree)
  THEN /\ Keys(tree') = Keys(tree)
       /\ tree'.rootId = tree.rootId
       /\ tree'.activeNodeId = tree.activeNodeId
       /\ \A n \in Keys(tree) \ {k} : tree'.nodes[n] = tree.nodes[n]
       /\ Len(tree'.nodes[k].messages) = Len(tree.nodes[k].messages) + 1
       /\ IsPrefix(tree.nodes[k].messages, tree'.nodes[k].messages)
       /\ tree'.nodes[k].messages[Len(tree'.nodes[k].messages)].role = "assistant"
       /\ tree'.nodes[k].childrenIds = tree.nodes[k].childrenIds
       /\ tree'.nodes[k].parentId = tree.nodes[k].parentId
       /\ tree'.nodes[k].title = tree.nodes[k].title
  ELSE tree' = tree

Pending == { r \in inflight : ~r.aborted }

RetryOfMissingNode ==
  /\ error # NoError
  /\ lastRequest # NULL
  /\ ~isGenerating
  /\ lastRequest \notin Keys(tree)

FilterInputs == SearchTexts \X FromTimes \X ToTimes

\* Proper ancestors of n along parentId.
ProperAncestors(T, n) == ancestorsOf(T, n, {})

\* C36: for every well-formed tree and every filter set computed by the
\* App (null for no filter), the outline and the graph display the same set
\* of node ids: exactly the nodes in the filter all of whose proper
\* ancestors are not collapsed.
C36_ViewsAgree ==
  WellFormed(tree) =>
    \A in \in FilterInputs :
      LET F == filteredNodeIds(tree, in[1], in[2], in[3])
          shown == { n \in Keys(tree) :
                       /\ F.filtered => n \in F.ids
                       /\ \A a \in ProperAncestors(tree, n) :
                            ~tree.nodes[a].isCollapsed }
      IN /\ TreeView(tree, F) = shown
         /\ MindmapView(tree, F) = shown

\* C36 witness: a well-formed tree and a filter in which a node other than
\* the root is kept only as the ancestor of a match, with a collapsed node
\* hiding nodes of the filter.
C36_Witness ==
  /\ WellFormed(tree)
  /\ \E in \in FilterInputs :
       LET F == filteredNodeIds(tree, in[1], in[2], in[3])
           query == toLowerCase(trim(in[1]))
       IN /\ F.filtered
          /\ \E n \in F.ids \ {tree.rootId} :
               ~nodeMatches(tree.nodes[n], query, in[2], in[3])
          /\ \E n \in Keys(tree) : n \notin F.ids
          /\ \E a \in F.ids :
               /\ tree.nodes[a].isCollapsed
               /\ \E i \in 1 .. Len(tree.nodes[a].childrenIds) :
                    tree.nodes[a].childrenIds[i] \in F.ids
          /\ TreeView(tree, F) # F.ids
          /\ Cardinality(TreeView(tree, F)) >= 2

\* No id is listed in the childrenIds of two different nodes.
NoSharedChild(T) ==
  \A m, n \in Keys(T) : m # n => ChildrenOf(T, m) \cap ChildrenOf(T, n) = {}

\* C37: in every tree reachable from createEmptyTree() by the eight
\* operations (restore with any snapshot captured earlier), no node's
\* childrenIds contains the same id twice, and no id appears in the
\* childrenIds of two different nodes.
C37_ChildListsDisjoint ==
  /\ NoRepeatedChild(tree)
  /\ NoSharedChild(tree)

\* C37 witness: a snapshot taken from a node that was never deleted has
\* been restored over the live tree, leaving a node its parent does not
\* list, beside a node with two children.
C37_Witness ==
  /\ lastDeleted # NoSnapshot
  /\ lastDeleted.rootId \in Keys(tree)
  /\ ~ParentLinksAgree(tree)
  /\ \E n \in Keys(tree) : Len(tree.nodes[n].childrenIds) >= 2

\* C38: once the App has initialised, the workspace list is never empty
\* and activeTreeId is always the id of an entry in it: handleDeleteTree
\* refuses to delete when only one workspace remains, and deleting the
\* active workspace makes another listed workspace active.
C38_ActiveWorkspaceListed ==
  /\ Len(treeList) >= 1
  /\ activeTreeId \in ListIds(treeList)

\* C38 witness: the second workspace was made and deleted again, leaving
\* the first as the only and active one, and a further delete was refused.
C38_Witness ==
  /\ treeList = <<1>>
  /\ activeTreeId = 1
  /\ nextWsId = 3
  /\ 2 \notin DOMAIN storage
  /\ alerted = "You must have at least one workspace."

====
